---- MODULE Spec2Model ----
(***************************************************************************)
(* Model of the WhatsApp messaging utility backend:                        *)
(*   - the webhook normalizer  (services/whatsapp.py parse_webhook_message)*)
(*   - the webhook routes      (routes/webhooks.py)                        *)
(*   - the in-memory message store and its queries (routes/messages.py)    *)
(*   - the outbound sends      (services/whatsapp.py, routes/messages.py)  *)
(*   - the media upload        (routes/messages.py upload_media)           *)
(*                                                                         *)
(* JSON values are tagged records [k, v]: k is the kind of the value       *)
(* ("absent" = the key is missing from its mapping, "null", "str", and     *)
(* "arr" = a non-empty JSON array standing where a scalar is expected),    *)
(* v the characters of a string.                                           *)
(***************************************************************************)
EXTENDS Integers, Sequences, FiniteSets, TLC

\* ------------------------------------------------------------------ bounds
\* longest message store explored
MaxStore == 2
\* number of webhook requests that can be in flight at once
NumHandlers == 2
\* most files uploaded
MaxUploads == 1

\* ------------------------------------------------------------- JSON values
Absent == [k |-> "absent", v |-> ""]
Null == [k |-> "null", v |-> ""]
Arr == [k |-> "arr", v |-> ""]
Str(s) == [k |-> "str", v |-> s]

\* Python's None in an Optional[str] field
None == Null

\* dict.get(key, default): the default only when the key is missing
Get(x, default) == IF x.k = "absent" THEN default ELSE x

\* Timestamps: a string of decimal digits (or a JSON number) denoting n, a
\* string that is no decimal integer, a digit string beyond the range of
\* datetime.fromtimestamp, or a missing key.
TsDigits(n) == [k |-> "digits", n |-> n]
TsText == [k |-> "text", n |-> 0]
TsHuge == [k |-> "huge", n |-> 0]
TsAbsent == [k |-> "absent", n |-> 0]

\* the values datetime.now() can return, as epoch seconds
NowTimes == {1700000100, 1700000101}

\* ---------------------------------------------------------- message model
MessageType == {"text", "audio", "document", "image", "video"}
MediaTypes == {"audio", "document", "image", "video"}
MessageStatus == {"sent", "delivered", "read", "failed", "pending"}
DELIVERED == "delivered"
SENT == "sent"

\* placeholder carried by results that hold no message
NoMessage ==
  [message_id |-> "", from_number |-> "", message_type |-> "",
   text |-> None, media_url |-> None, media_id |-> None,
   timestamp |-> 0, status |-> ""]

\* pydantic validation of a `str` field and of an `Optional[str]` field
IsStr(x) == x.k = "str"
IsOptStr(x) == x.k \in {"str", "null"}

\* ------------------------------------------------------ webhook payloads
\* A payload describes the path entry[0].changes[0].value.messages[0]:
\*   root      kind of the decoded JSON document: "obj" a mapping, "arr" not
\*   entry, changes, messages
\*             "absent" key missing, "null" a falsy value, "empty" [],
\*             "scalar" a truthy value that is no list, "list" a non-empty list
\*   entry0, change0, message0
\*             kind of the first element: "obj" a mapping, "scalar" not
\*   value     "absent", "null" or "obj"
\*   id, from, type   JSON values of the first message's keys
\*   timestamp a timestamp value
\*   ckey      the one type-named key the first message carries ("none": none)
\*   cobj      kind of the value under ckey: "obj", "null" or "arr"
\*   body, mid, link, caption
\*             JSON values of the keys body, id, link, caption of that object
\*   rest      the ids of the further messages of the payload, those after
\*             the first in messages, in further changes and further entries
ListKinds == {"absent", "null", "empty", "scalar", "list"}
ElemKinds == {"obj", "scalar"}

GoodStructure ==
  [root |-> "obj", entry |-> "list", entry0 |-> "obj", changes |-> "list",
   change0 |-> "obj", value |-> "obj", messages |-> "list", message0 |-> "obj"]

Payload(s, id, from, ts, type, ckey, cobj, body, mid, link, caption) ==
  [root |-> s.root, entry |-> s.entry, entry0 |-> s.entry0,
   changes |-> s.changes, change0 |-> s.change0, value |-> s.value,
   messages |-> s.messages, message0 |-> s.message0,
   id |-> id, from |-> from, timestamp |-> ts, type |-> type,
   ckey |-> ckey, cobj |-> cobj, body |-> body, mid |-> mid, link |-> link,
   caption |-> caption, rest |-> <<>>]

\* the payload wd carrying further messages beside its first
WithRest(wd, rest) == [wd EXCEPT !.rest = rest]

TextPayload(id, from, ts, body) ==
  Payload(GoodStructure, id, from, ts, Str("text"), "text", "obj", body,
          Absent, Absent, Absent)

MediaPayload(id, from, ts, type, mid, link, caption) ==
  Payload(GoodStructure, id, from, ts, Str(type), type, "obj", Absent,
          mid, link, caption)

\* ------------------------------------------------------------ normalizer
\* Outcome of a call: a message, Python's None, or a propagated exception.
RetMsg(m) == [kind |-> "msg", msg |-> m]
RetNone == [kind |-> "none", msg |-> NoMessage]
Raised == [kind |-> "raise", msg |-> NoMessage]

\* `x = d.get(key, []); if not x: return None; x[0]...` for one level of the
\* path: "none" when x is missing or falsy, "raise" when x[0] fails or is
\* no mapping, "ok" when x[0] is a mapping.
FirstOf(list, elem) ==
  IF list \in {"absent", "null", "empty"} THEN "none"
  ELSE IF list = "scalar" THEN "raise"
  ELSE IF elem # "obj" THEN "raise"
  ELSE "ok"

\* The walk down to messages[0]: "ok", "none" (return None) or "raise".
FirstMessage(wd) ==
  IF wd.root # "obj" THEN "raise"
  ELSE IF FirstOf(wd.entry, wd.entry0) # "ok" THEN FirstOf(wd.entry, wd.entry0)
  ELSE IF FirstOf(wd.changes, wd.change0) # "ok"
    THEN FirstOf(wd.changes, wd.change0)
  ELSE IF wd.value = "null" THEN "raise"
  ELSE IF wd.value = "absent" THEN "none"
  ELSE FirstOf(wd.messages, wd.message0)

\* message.get("type", "text")
TypeOf(wd) == Get(wd.type, Str("text"))

\* ParseTimestamp falling back to the epoch
ParseTimestampEpoch(ts, now) == IF ts.k = "digits" THEN ts.n ELSE 0

\* try: datetime.fromtimestamp(int(timestamp))  except: datetime.now()
ParseTimestamp(ts, now) == IF ts.k = "digits" THEN ts.n ELSE now

\* kind of message.get(t, {}): the nested object named by the type
Nested(wd, t) == IF wd.ckey = t THEN wd.cobj ELSE "absent"

\* nested.get(key, ""): reading a key of the nested object (an absent
\* nested object is the default {}, every key of which is missing)
NestedGet(wd, t, x) == IF Nested(wd, t) = "absent" THEN Str("") ELSE Get(x, Str(""))

\* ExtractContent reading the text of a text message from `caption`
ExtractContentWrongKey(wd) ==
  LET t == TypeOf(wd) IN
    IF t = Str("text")
      THEN [raise |-> Nested(wd, "text") \in {"null", "arr"},
            text |-> NestedGet(wd, "text", wd.caption),
            media_url |-> None, media_id |-> None]
    ELSE IF t.k = "str" /\ t.v \in {"audio", "document", "image", "video"}
      THEN [raise |-> Nested(wd, t.v) \in {"null", "arr"},
            text |-> NestedGet(wd, t.v, wd.caption),
            media_url |-> NestedGet(wd, t.v, wd.link),
            media_id |-> NestedGet(wd, t.v, wd.mid)]
    ELSE [raise |-> FALSE, text |-> None, media_url |-> None, media_id |-> None]

\* ExtractContent with `id` and `link` of the nested object exchanged
ExtractContentSwapped(wd) ==
  LET t == TypeOf(wd) IN
    IF t = Str("text")
      THEN [raise |-> Nested(wd, "text") \in {"null", "arr"},
            text |-> NestedGet(wd, "text", wd.body),
            media_url |-> None, media_id |-> None]
    ELSE IF t.k = "str" /\ t.v \in {"audio", "document", "image", "video"}
      THEN [raise |-> Nested(wd, t.v) \in {"null", "arr"},
            text |-> NestedGet(wd, t.v, wd.caption),
            media_url |-> NestedGet(wd, t.v, wd.mid),
            media_id |-> NestedGet(wd, t.v, wd.link)]
    ELSE [raise |-> FALSE, text |-> None, media_url |-> None, media_id |-> None]

\* The content extracted for the message type: [raise, text, media_url, media_id]
ExtractContent(wd) ==
  LET t == TypeOf(wd) IN
    IF t = Str("text")
      THEN [raise |-> Nested(wd, "text") \in {"null", "arr"},
            text |-> NestedGet(wd, "text", wd.body),
            media_url |-> None, media_id |-> None]
    ELSE IF t.k = "str" /\ t.v \in {"audio", "document", "image", "video"}
      THEN [raise |-> Nested(wd, t.v) \in {"null", "arr"},
            text |-> NestedGet(wd, t.v, wd.caption),
            media_url |-> NestedGet(wd, t.v, wd.link),
            media_id |-> NestedGet(wd, t.v, wd.mid)]
    ELSE [raise |-> FALSE, text |-> None, media_url |-> None, media_id |-> None]

\* IsMessageType accepting every string
IsMessageTypeAnyString(t) == t.k = "str"

\* MessageType(message_type): the enum lookup succeeds only on a member
IsMessageType(t) == t.k = "str" /\ t.v \in MessageType

\* BuildReceived leaving the status at pending
BuildReceivedPending(id, from, t, c, dt) ==
  IF ~IsMessageType(t) THEN Raised
  ELSE IF ~(IsStr(id) /\ IsStr(from) /\ IsOptStr(c.text)
            /\ IsOptStr(c.media_url) /\ IsOptStr(c.media_id)) THEN Raised
  ELSE RetMsg([message_id |-> id.v, from_number |-> from.v,
               message_type |-> t.v, text |-> c.text,
               media_url |-> c.media_url, media_id |-> c.media_id,
               timestamp |-> dt, status |-> "pending"])

\* ReceivedMessage(...): field validation, then the model instance
BuildReceived(id, from, t, c, dt) ==
  IF ~IsMessageType(t) THEN Raised
  ELSE IF ~(IsStr(id) /\ IsStr(from) /\ IsOptStr(c.text)
            /\ IsOptStr(c.media_url) /\ IsOptStr(c.media_id)) THEN Raised
  ELSE RetMsg([message_id |-> id.v, from_number |-> from.v,
               message_type |-> t.v, text |-> c.text,
               media_url |-> c.media_url, media_id |-> c.media_id,
               timestamp |-> dt, status |-> DELIVERED])

\* ParseBody reading the id of the payload's last message
ParseBodyLastMessage(wd, now) ==
  IF FirstMessage(wd) = "raise" THEN Raised
  ELSE IF FirstMessage(wd) = "none" THEN RetNone
  ELSE LET c == ExtractContent(wd) IN
    IF c.raise THEN Raised
    ELSE BuildReceived(IF wd.rest = <<>> THEN Get(wd.id, Str(""))
                       ELSE Str(wd.rest[Len(wd.rest)]),
                       Get(wd.from, Str("")), TypeOf(wd),
                       c, ParseTimestamp(wd.timestamp, now))

\* The body of the try block of parse_webhook_message
ParseBody(wd, now) ==
  IF FirstMessage(wd) = "raise" THEN Raised
  ELSE IF FirstMessage(wd) = "none" THEN RetNone
  ELSE LET c == ExtractContent(wd) IN
    IF c.raise THEN Raised
    ELSE BuildReceived(Get(wd.id, Str("")), Get(wd.from, Str("")), TypeOf(wd),
                       c, ParseTimestamp(wd.timestamp, now))

\* CatchAll without its except clause
CatchNothing(r) == r

\* `except Exception: return None` around the body
CatchAll(r) == IF r.kind = "raise" THEN RetNone ELSE r

parse_webhook_message(wd, now) == CatchAll(ParseBody(wd, now))

\* ------------------------------------------------------------------- state
VARIABLES
  received_messages,  \* routes/messages.py: the in-memory list of messages
  verify_token,       \* settings.WHATSAPP_WEBHOOK_VERIFY_TOKEN, read at start
  handlers,           \* per in-flight webhook request: where it is suspended
  uploads,            \* number of files written to the uploads directory
  last                \* the most recent call: operation, input, response

vars == <<received_messages, verify_token, handlers, uploads, last>>

Handlers == 1 .. NumHandlers
Idle == [pc |-> "idle", media_id |-> "", url |-> ""]

\* os.getenv("WHATSAPP_WEBHOOK_VERIFY_TOKEN", ""): unset, or a secret
Secrets == {"", "s3cret"}

\* Python truthiness of an Optional[str]
Truthy(x) == x.k = "str" /\ x.v # ""

\* --------------------------------------------------------- message store
\* add_received_message putting the message in front
add_received_messageFront(store, message) == <<message>> \o store

\* add_received_message writing over the newest entry
add_received_messageOver(store, message) ==
  IF store = <<>> THEN <<message>> ELSE [store EXCEPT ![Len(store)] = message]

\* add_received_message: list.append
add_received_message(store, message) == Append(store, message)

\* a slice bound of a list of length n, as Python clamps it
SliceIndex(i, n) ==
  IF i < 0 THEN (IF i + n < 0 THEN 0 ELSE i + n)
  ELSE (IF i > n THEN n ELSE i)

\* seq[start:stop]
PySlice(seq, start, stop) ==
  SubSeq(seq, SliceIndex(start, Len(seq)) + 1, SliceIndex(stop, Len(seq)))

\* get_messages taking the page's end as inclusive
get_messagesInclusive(store, limit, offset) ==
  [status |-> 200,
   messages |-> PySlice(store, offset, offset + limit - 1),
   total |-> Len(store)]

\* get_messages: the page and the size of the whole store
get_messages(store, limit, offset) ==
  [status |-> 200,
   messages |-> PySlice(store, offset, offset + limit),
   total |-> Len(store)]

\* the positions (from 1) of the stored messages with the given id
Matching(store, id) == {i \in 1 .. Len(store) : store[i].message_id = id}

\* the least element of a non-empty set of positions
Least(S) == CHOOSE i \in S : \A j \in S : i <= j

\* the greatest element of a non-empty set of positions
Greatest(S) == CHOOSE i \in S : \A j \in S : j <= i

\* get_message scanning from the end of the list
GetBodyLastMatch(store, id) ==
  IF Matching(store, id) # {}
    THEN [raised |-> FALSE, status |-> 200, found |-> TRUE,
          msg |-> store[Greatest(Matching(store, id))]]
    ELSE [raised |-> TRUE, status |-> 404, found |-> FALSE, msg |-> NoMessage]

\* the try block of get_message: the first message of the scan with that id,
\* or HTTPException(404, "Message not found") raised
GetBody(store, id) ==
  IF Matching(store, id) # {}
    THEN [raised |-> FALSE, status |-> 200, found |-> TRUE,
          msg |-> store[Least(Matching(store, id))]]
    ELSE [raised |-> TRUE, status |-> 404, found |-> FALSE, msg |-> NoMessage]

\* `except HTTPException: raise`, ahead of `except Exception`: the 404
\* leaves the handler as it was raised
GetExcept(r) == r

get_message(store, id) == GetExcept(GetBody(store, id))

\* --------------------------------------------------- webhook verification
\* str(e) of the HTTPException raised inside the try block: "403: Forbidden"
\* where the framework defines __str__, "" where it does not
ExcStrings == {"403: Forbidden", ""}

\* VerifyBody without the test of hub.mode
VerifyBodyAnyMode(mode, challenge, token, secret) ==
  IF token = secret
    THEN [raised |-> FALSE, status |-> 200, kind |-> "text", body |-> challenge]
    ELSE [raised |-> TRUE, status |-> 403, kind |-> "json", body |-> "Forbidden"]

\* the try block of verify_webhook: the challenge as plain text, or
\* HTTPException(403, "Forbidden") raised
VerifyBody(mode, challenge, token, secret) ==
  IF mode = "subscribe" /\ token = secret
    THEN [raised |-> FALSE, status |-> 200, kind |-> "text", body |-> challenge]
    ELSE [raised |-> TRUE, status |-> 403, kind |-> "json", body |-> "Forbidden"]

\* `except Exception as e: raise HTTPException(500, detail=str(e))`:
\* HTTPException is an Exception, so the 403 raised above lands here too
VerifyExcept(r, excstr) ==
  IF r.raised
    THEN [raised |-> TRUE, status |-> 500, kind |-> "json", body |-> excstr]
    ELSE r

verify_webhook(mode, challenge, token, secret, excstr) ==
  VerifyExcept(VerifyBody(mode, challenge, token, secret), excstr)

\* ------------------------------------------------------ webhook ingestion
\* A request body: bytes that are no UTF-8, text that is no JSON, or a JSON
\* document (data describes it)
BadUtf8 == [enc |-> "badutf8", data |-> TextPayload(Absent, Absent, TsAbsent, Absent)]
BadJson == [enc |-> "badjson", data |-> TextPayload(Absent, Absent, TsAbsent, Absent)]
Json(wd) == [enc |-> "json", data |-> wd]

\* body.decode('utf-8'), json.loads and parse_webhook_message: the exception
\* class that escapes ("" when none does) and the normalizer's result
DecodeAndParse(body, now) ==
  IF body.enc = "badutf8" THEN [exc |-> "UnicodeDecodeError", parsed |-> RetNone]
  ELSE IF body.enc = "badjson" THEN [exc |-> "JSONDecodeError", parsed |-> RetNone]
  ELSE LET r == parse_webhook_message(body.data, now) IN
    IF r.kind = "raise" THEN [exc |-> "Exception", parsed |-> RetNone]
    ELSE [exc |-> "", parsed |-> r]

\* the except clauses of receive_webhook, and the normal return
WebhookStatus(exc) ==
  IF exc = "" THEN 200
  ELSE IF exc = "JSONDecodeError" THEN 400
  ELSE 500

\* ShouldStore without the test of the normalizer's result
ShouldStoreAlways(d) == d.exc = ""

\* `if message:` after a normalization that raised nothing
ShouldStore(d) == d.exc = "" /\ d.parsed.kind = "msg"

\* WantsDownload without the test of media_id
WantsDownloadAnyMedia(m) == m.message_type \in MediaTypes

\* `elif message_type in [audio, document, image, video]: if message.media_id:`
WantsDownload(m) == m.message_type \in MediaTypes /\ Truthy(m.media_id)

\* Requests are interchangeable: a new one takes the lowest free slot.
FreeSlot(h) ==
  /\ handlers[h].pc = "idle"
  /\ \A g \in Handlers : g < h => handlers[g].pc # "idle"

\* receive_webhook up to its first suspension inside download_media (or to
\* its return when there is none): decode, normalize, append.
ReceiveWebhook(h, body, now) ==
  LET d == DecodeAndParse(body, now)
      stored == ShouldStore(d)
      suspended == stored /\ WantsDownload(d.parsed.msg)
  IN
    /\ FreeSlot(h)
    /\ stored => Len(received_messages) < MaxStore
    /\ received_messages' =
         IF stored THEN add_received_message(received_messages, d.parsed.msg)
         ELSE received_messages
    /\ handlers' =
         IF suspended
           THEN [handlers EXCEPT ![h] =
                   [pc |-> "meta", media_id |-> d.parsed.msg.media_id.v,
                    url |-> ""]]
           ELSE handlers
    /\ last' = [op |-> "receive_webhook", arg |-> [body |-> body, now |-> now],
                status |-> IF suspended THEN 0 ELSE WebhookStatus(d.exc),
                ret |-> d.parsed]
    /\ UNCHANGED <<verify_token, uploads>>

\* The provider's answer to the first GET of download_media (the metadata of
\* the media id): none (transport failure), an error status, JSON without a
\* "url" key, or JSON with the download URL.
MetaFailed(why) == [ok |-> FALSE, why |-> why, url |-> ""]
MetaUrl(url) == [ok |-> TRUE, why |-> "", url |-> url]

\* where download_media stands after a step: suspended in the second GET
\* ("next"), returned, or left by an exception
Awaiting(url) == [kind |-> "next", value |-> None, url |-> url]
Returned(value) == [kind |-> "return", value |-> value, url |-> ""]
DownloadRaised == [kind |-> "raise", value |-> None, url |-> ""]

\* the first GET, raise_for_status, response.json() and media_data["url"]
MetaStep(answer) ==
  IF answer.ok THEN Awaiting(answer.url) ELSE DownloadRaised

\* the second GET (of the download URL), raise_for_status, `return download_url`
BytesStep(url, ok) ==
  IF ok THEN Returned(Str(url)) ELSE DownloadRaised

\* download_media without its except clause
DownloadExceptNothing(r) == r

\* `except Exception: return None` of download_media
DownloadExcept(r) == IF r.kind = "raise" THEN Returned(None) ELSE r

\* the rest of receive_webhook once download_media is over: the exception
\* class that escapes the try block ("" when none does)
AfterDownload(r) == IF r.kind = "raise" THEN "Exception" ELSE ""

\* download_media up to its second await; when the first GET fails the
\* handler goes on to its answer.
DownloadMeta(h, answer) ==
  LET r == DownloadExcept(MetaStep(answer)) IN
    /\ handlers[h].pc = "meta"
    /\ handlers' = [handlers EXCEPT ![h] =
                      IF r.kind = "next"
                        THEN [pc |-> "bytes", media_id |-> handlers[h].media_id,
                              url |-> r.url]
                        ELSE Idle]
    /\ last' = [op |-> "download_media",
                arg |-> [media_id |-> handlers[h].media_id, meta |-> answer,
                         bytes |-> "none"],
                status |-> IF r.kind = "next" THEN 0
                           ELSE WebhookStatus(AfterDownload(r)),
                ret |-> r]
    /\ UNCHANGED <<received_messages, verify_token, uploads>>

\* download_media from its second await to its return, and the handler's
\* answer.
DownloadBytes(h, ok) ==
  LET r == DownloadExcept(BytesStep(handlers[h].url, ok)) IN
    /\ handlers[h].pc = "bytes"
    /\ handlers' = [handlers EXCEPT ![h] = Idle]
    /\ last' = [op |-> "download_media",
                arg |-> [media_id |-> handlers[h].media_id,
                         meta |-> MetaUrl(handlers[h].url),
                         bytes |-> IF ok THEN "ok" ELSE "failed"],
                status |-> WebhookStatus(AfterDownload(r)),
                ret |-> r]
    /\ UNCHANGED <<received_messages, verify_token, uploads>>

\* GET /webhook/
VerifyWebhook(mode, challenge, token, excstr) ==
  /\ last' = [op |-> "verify_webhook",
              arg |-> [mode |-> mode, challenge |-> challenge, token |-> token],
              status |-> verify_webhook(mode, challenge, token, verify_token, excstr).status,
              ret |-> verify_webhook(mode, challenge, token, verify_token, excstr)]
  /\ UNCHANGED <<received_messages, verify_token, handlers, uploads>>

\* GET /api/messages/
GetMessages(limit, offset) ==
  /\ last' = [op |-> "get_messages", arg |-> [limit |-> limit, offset |-> offset],
              status |-> get_messages(received_messages, limit, offset).status,
              ret |-> get_messages(received_messages, limit, offset)]
  /\ UNCHANGED <<received_messages, verify_token, handlers, uploads>>

\* GET /api/messages/{message_id}
GetMessage(id) ==
  /\ last' = [op |-> "get_message", arg |-> [id |-> id],
              status |-> get_message(received_messages, id).status,
              ret |-> get_message(received_messages, id)]
  /\ UNCHANGED <<received_messages, verify_token, handlers, uploads>>

\* --------------------------------------------------------- outbound sends
\* The provider's answer to the POST of a send: no response at all (timeout,
\* DNS, connection refused; text is str(e)), or a response with a status code
\* and a raw body `text`. The body of a 2xx response is JSON or not; when it
\* is, it has a "messages" key or not, and `ids` lists the "id" of each
\* element of that array (Absent for an element without one).
NoResponse(text) ==
  [kind |-> "transport", code |-> 0, text |-> text, json |-> FALSE,
   has_messages |-> FALSE, ids |-> <<>>]

ErrorResponse(code, text) ==
  [kind |-> "http", code |-> code, text |-> text, json |-> FALSE,
   has_messages |-> FALSE, ids |-> <<>>]

NotJson(code) ==
  [kind |-> "http", code |-> code, text |-> "<html>", json |-> FALSE,
   has_messages |-> FALSE, ids |-> <<>>]

JsonResponse(code, has_messages, ids) ==
  [kind |-> "http", code |-> code, text |-> "", json |-> TRUE,
   has_messages |-> has_messages, ids |-> ids]

\* response.raise_for_status() passes
IsSuccess(code) == 200 <= code /\ code <= 299

\* what a send gives back: a SendMessageResponse, or an exception
SendOk(message_id, now) ==
  [kind |-> "ok", exc |-> "", code |-> 0, msg |-> "",
   message_id |-> message_id, status |-> SENT, timestamp |-> now]

SendRaised(exc, msg) ==
  [kind |-> "raise", exc |-> exc, code |-> 0, msg |-> msg,
   message_id |-> "", status |-> "", timestamp |-> 0]

\* HTTPException(status_code, detail) raised
HttpException(code, detail) ==
  [kind |-> "raise", exc |-> "HTTPException", code |-> code, msg |-> detail,
   message_id |-> "", status |-> "", timestamp |-> 0]

\* payload of send_text_message
SendTextPayload(to, text) ==
  [messaging_product |-> "whatsapp", to |-> to, type |-> "text",
   key |-> "text", body |-> text, link |-> Absent, caption |-> Absent]

\* the payload of send_media_message with the caption attached whatever the
\* media type
SendMediaPayloadAnyType(to, media_type, media_url, caption) ==
  [messaging_product |-> "whatsapp", to |-> to, type |-> media_type,
   key |-> media_type, body |-> Absent, link |-> media_url,
   caption |-> IF Truthy(caption) THEN caption ELSE Absent]

\* payload of send_media_message: {..., media_type: {"link": media_url}} and
\* `if caption and media_type in [document, image, video]` the caption
SendMediaPayload(to, media_type, media_url, caption) ==
  [messaging_product |-> "whatsapp", to |-> to, type |-> media_type,
   key |-> media_type, body |-> Absent, link |-> media_url,
   caption |-> IF Truthy(caption) /\ media_type \in {"document", "image", "video"}
                 THEN caption ELSE Absent]

\* SendBody reading the id of the last element of "messages"
SendBodyLastId(answer, now) ==
  IF answer.kind = "transport" THEN SendRaised("ConnectError", answer.text)
  ELSE IF ~IsSuccess(answer.code) THEN SendRaised("HTTPStatusError", answer.text)
  ELSE IF ~answer.json THEN SendRaised("JSONDecodeError", "Expecting value")
  ELSE IF ~answer.has_messages THEN SendRaised("KeyError", "'messages'")
  ELSE IF answer.ids = <<>> THEN SendRaised("IndexError", "list index out of range")
  ELSE IF answer.ids[Len(answer.ids)] = Absent THEN SendRaised("KeyError", "'id'")
  ELSE IF ~IsStr(answer.ids[Len(answer.ids)]) THEN SendRaised("ValidationError", "message_id")
  ELSE SendOk(answer.ids[Len(answer.ids)].v, now)

\* the try block of send_text_message and of send_media_message: POST,
\* raise_for_status, response.json(), data["messages"][0]["id"], and the
\* SendMessageResponse built from it
SendBody(answer, now) ==
  IF answer.kind = "transport" THEN SendRaised("ConnectError", answer.text)
  ELSE IF ~IsSuccess(answer.code) THEN SendRaised("HTTPStatusError", answer.text)
  ELSE IF ~answer.json THEN SendRaised("JSONDecodeError", "Expecting value")
  ELSE IF ~answer.has_messages THEN SendRaised("KeyError", "'messages'")
  ELSE IF answer.ids = <<>> THEN SendRaised("IndexError", "list index out of range")
  ELSE IF answer.ids[1] = Absent THEN SendRaised("KeyError", "'id'")
  ELSE IF ~IsStr(answer.ids[1]) THEN SendRaised("ValidationError", "message_id")
  ELSE SendOk(answer.ids[1].v, now)

\* `except httpx.HTTPStatusError as e: raise Exception(prefix + e.response.text)`
\* and `except Exception as e: raise Exception(prefix + str(e))`
SendExcept(r, prefix) ==
  IF r.kind = "raise" THEN SendRaised("Exception", prefix \o r.msg) ELSE r

\* WhatsAppService.send_text_message: the payload posted and the outcome
send_text_message(to, text, answer, now) ==
  [called |-> TRUE, payload |-> SendTextPayload(to, text),
   out |-> SendExcept(SendBody(answer, now), "Failed to send message: ")]

\* WhatsAppService.send_media_message: the payload posted and the outcome
send_media_message(to, media_type, media_url, caption, answer, now) ==
  [called |-> TRUE,
   payload |-> SendMediaPayload(to, media_type, media_url, caption),
   out |-> SendExcept(SendBody(answer, now), "Failed to send media message: ")]

\* a route that raised before any call of the provider
NotCalled(out) == [called |-> FALSE, payload |-> Null, out |-> out]

\* str(e) of the exception a route catches: the message of an Exception; for
\* an HTTPException "<status_code>: <detail>" where the framework defines
\* __str__ (`named`), "" where it does not
StrOfException(e, named) ==
  IF e.exc # "HTTPException" THEN e.msg
  ELSE IF named THEN "400: " \o e.msg
  ELSE ""

\* `except Exception as e: raise HTTPException(500, detail=str(e))` of the
\* three send routes: an HTTPException raised in the try block lands here too
RouteExcept(r, named) ==
  IF r.out.kind = "raise"
    THEN [r EXCEPT !.out = HttpException(500, StrOfException(r.out, named))]
    ELSE r

\* what a route's try block came to (`tried`) beside what the route answers
Answered(r, answer) ==
  [called |-> answer.called, payload |-> answer.payload, tried |-> r.out,
   out |-> answer.out]

\* the HTTP status of a route's response
RouteStatus(r) == IF r.out.kind = "ok" THEN 200 ELSE r.out.code

\* the try block of POST /api/messages/send
SendMessageBody(request, answer, now) ==
  IF request.message_type = "text" THEN
    IF ~Truthy(request.text)
      THEN NotCalled(HttpException(400, "Text content is required for text messages"))
      ELSE send_text_message(request.to, request.text, answer, now)
  ELSE IF request.message_type \in MediaTypes THEN
    IF ~Truthy(request.media_url)
      THEN NotCalled(HttpException(400, "Media URL is required for media messages"))
      ELSE send_media_message(request.to, request.message_type,
                              request.media_url, request.media_caption,
                              answer, now)
  ELSE NotCalled(HttpException(400, "Unsupported message type"))

\* POST /api/messages/send: a body that is no SendMessageRequest (message_type
\* outside the enumeration) is answered 422 by the framework, the handler
\* never starts
send_message(request, answer, now, named) ==
  IF request.message_type \notin MessageType
    THEN Answered(NotCalled(HttpException(422, "message_type")),
                  NotCalled(HttpException(422, "message_type")))
    ELSE Answered(SendMessageBody(request, answer, now),
                  RouteExcept(SendMessageBody(request, answer, now), named))

\* `to: str = Form(...)`: a required form field that is sent empty counts as
\* missing, and the framework answers 422 before the handler starts
FormMissing(fields) == "" \in fields

\* `caption: Optional[str] = Form(None)`: sent empty, it takes its default
FormOptional(x) == IF x = Str("") THEN None ELSE x

\* POST /api/messages/send-text (the service's send_text_message behind it)
send_text_route(to, text, answer, now, named) ==
  IF FormMissing({to, text})
    THEN Answered(NotCalled(HttpException(422, "field required")),
                  NotCalled(HttpException(422, "field required")))
    ELSE Answered(send_text_message(to, Str(text), answer, now),
                  RouteExcept(send_text_message(to, Str(text), answer, now),
                              named))

\* the try block of POST /api/messages/send-media
SendMediaBody(to, media_type, media_url, caption, answer, now) ==
  IF media_type \notin {"audio", "document", "image", "video"}
    THEN NotCalled(HttpException(400, "Invalid media type"))
    ELSE send_media_message(to, media_type, Str(media_url), caption, answer, now)

\* POST /api/messages/send-media
send_media_route(to, media_type, media_url, caption, answer, now, named) ==
  IF FormMissing({to, media_type, media_url})
    THEN Answered(NotCalled(HttpException(422, "field required")),
                  NotCalled(HttpException(422, "field required")))
    ELSE Answered(SendMediaBody(to, media_type, media_url,
                                FormOptional(caption), answer, now),
                  RouteExcept(SendMediaBody(to, media_type, media_url,
                                            FormOptional(caption), answer, now),
                              named))

SendMessage(request, answer, now, named) ==
  /\ last' = [op |-> "send_message",
              arg |-> [request |-> request, answer |-> answer, now |-> now],
              status |-> RouteStatus(send_message(request, answer, now, named)),
              ret |-> send_message(request, answer, now, named)]
  /\ UNCHANGED <<received_messages, verify_token, handlers, uploads>>

\* SendTextMessage keeping the message it sent in the store
SendTextMessageStoring(to, text, answer, now, named) ==
  /\ last' = [op |-> "send_text_message",
              arg |-> [request |-> [to |-> to, message_type |-> "text",
                                    text |-> Str(text), media_url |-> None,
                                    media_caption |-> None],
                       answer |-> answer, now |-> now],
              status |-> RouteStatus(send_text_route(to, text, answer, now, named)),
              ret |-> send_text_route(to, text, answer, now, named)]
  /\ received_messages' =
       IF Len(received_messages) < MaxStore
         THEN Append(received_messages,
                     [NoMessage EXCEPT !.message_id = "out", !.text = Str(text)])
         ELSE received_messages
  /\ UNCHANGED <<verify_token, handlers, uploads>>

SendTextMessage(to, text, answer, now, named) ==
  /\ last' = [op |-> "send_text_message",
              arg |-> [request |-> [to |-> to, message_type |-> "text",
                                    text |-> Str(text), media_url |-> None,
                                    media_caption |-> None],
                       answer |-> answer, now |-> now],
              status |-> RouteStatus(send_text_route(to, text, answer, now, named)),
              ret |-> send_text_route(to, text, answer, now, named)]
  /\ UNCHANGED <<received_messages, verify_token, handlers, uploads>>

SendMediaMessage(to, media_type, media_url, caption, answer, now, named) ==
  /\ last' = [op |-> "send_media_message",
              arg |-> [request |-> [to |-> to, message_type |-> media_type,
                                    text |-> None, media_url |-> Str(media_url),
                                    media_caption |-> caption],
                       answer |-> answer, now |-> now],
              status |-> RouteStatus(send_media_route(to, media_type, media_url,
                                                      caption, answer, now, named)),
              ret |-> send_media_route(to, media_type, media_url, caption,
                                       answer, now, named)]
  /\ UNCHANGED <<received_messages, verify_token, handlers, uploads>>

\* ------------------------------------------------------------ media upload
\* An uploaded file's name is the sequence of its parts between the dots.
\* file.filename.split('.')[-1] if '.' in file.filename else ''
file_extension(filename) ==
  IF Len(filename) > 1 THEN filename[Len(filename)] ELSE ""

\* upload_media: the file uploads/<uuid4>.<extension> is created, the content
\* read from the request and written to it. `step` is how far the handler
\* gets: "noname" (the part has no filename: `'.' in None` raises before the
\* file is opened), "read" (the file is open when reading the content
\* fails), "done". Every exception is answered 500.
upload_media(filename, step, files) ==
  [status |-> IF step = "done" THEN 200 ELSE 500,
   filename |-> filename,
   extension |-> IF step = "noname" THEN "" ELSE file_extension(filename),
   files |-> IF step = "noname" THEN files ELSE files + 1]

\* POST /api/messages/media/upload
UploadMedia(filename, step) ==
  /\ uploads < MaxUploads
  /\ uploads' = upload_media(filename, step, uploads).files
  /\ last' = [op |-> "upload_media", arg |-> [filename |-> filename, step |-> step],
              status |-> upload_media(filename, step, uploads).status,
              ret |-> upload_media(filename, step, uploads)]
  /\ UNCHANGED <<received_messages, verify_token, handlers>>

\* ------------------------------------------------------------ input sets
Sender == "15550001"

Structure(root, entry, entry0, changes, change0, value, messages, message0) ==
  [root |-> root, entry |-> entry, entry0 |-> entry0, changes |-> changes,
   change0 |-> change0, value |-> value, messages |-> messages,
   message0 |-> message0]

WithStructure(s) ==
  Payload(s, Str("m1"), Str(Sender), TsDigits(1700000000), Str("text"),
          "text", "obj", Str("hi"), Absent, Absent, Absent)

\* the webhook bodies delivered to the running service
WebhookPayloads ==
  { WithStructure([GoodStructure EXCEPT !.root = "arr"]),
    WithStructure([GoodStructure EXCEPT !.entry = "absent"]),
    WithStructure([GoodStructure EXCEPT !.entry = "empty"]),
    WithStructure([GoodStructure EXCEPT !.changes = "absent"]),
    WithStructure([GoodStructure EXCEPT !.changes = "empty"]),
    WithStructure([GoodStructure EXCEPT !.messages = "absent"]),
    WithStructure([GoodStructure EXCEPT !.messages = "empty"]),
    TextPayload(Str("m1"), Str(Sender), TsDigits(1700000000), Str("hi")),
    TextPayload(Str("m2"), Str(Sender), TsText, Str("yo")),
    TextPayload(Absent, Str(Sender), TsDigits(1700000000), Str("hi")),
    TextPayload(Str("m1"), Absent, TsDigits(1700000000), Str("hi")),
    Payload(GoodStructure, Str("m1"), Str(Sender), TsDigits(1700000000),
            Str("sticker"), "none", "obj", Absent, Absent, Absent, Absent),
    Payload(GoodStructure, Str("m2"), Str(Sender), TsDigits(1700000000),
            Str("Text"), "text", "obj", Str("hi"), Absent, Absent, Absent),
    MediaPayload(Str("m2"), Str(Sender), TsDigits(1700000000), "image",
                 Str("media1"), Absent, Str("look")),
    MediaPayload(Str("m1"), Str(Sender), TsDigits(1700000000), "audio",
                 Absent, Str("https://host/a.ogg"), Absent) }

WebhookBodies == {BadUtf8, BadJson} \cup {Json(wd) : wd \in WebhookPayloads}

IdValues == {Absent, Null, Arr, Str(""), Str("m1")}
FromValues == {Absent, Arr, Str(""), Str(Sender)}
TsValues == {TsAbsent, TsText, TsHuge, TsDigits(1700000000)}

Modes == {"subscribe", "unsubscribe", ""}
Challenges == {"1158201444", "403: Forbidden", ""}
Tokens == Secrets \cup {"guess", "S3CRET"}
MessageIds == {"m1", "m2", "m9"}
MetaAnswers ==
  { MetaFailed("transport"), MetaFailed("nokey"),
    MetaUrl("https://cdn/a"), MetaUrl("https://cdn/b") }
SomeMetaAnswers == {MetaFailed("transport"), MetaUrl("https://cdn/a")}
Limits == -1 .. (MaxStore + 1)
Offsets == -1 .. (MaxStore + 1)

\* the provider's answers to a send
Answers ==
  { NoResponse("timed out"),
    ErrorResponse(400, "bad recipient"),
    ErrorResponse(500, "timed out"),
    NotJson(200),
    JsonResponse(200, FALSE, <<>>),
    JsonResponse(200, TRUE, <<>>),
    JsonResponse(200, TRUE, <<Absent>>),
    JsonResponse(200, TRUE, <<Null>>),
    JsonResponse(200, TRUE, <<Str("wamid.X")>>),
    JsonResponse(201, TRUE, <<Str("wamid.X"), Str("wamid.Y")>>) }

Recipients == {"", "15550001", "4915550002"}
Texts == {"", "hi", "yo"}
MediaUrls == {"", "https://host/f.png", "https://host/g.ogg"}
OptTexts == {None, Str(""), Str("hi")}
OptUrls == {None, Str(""), Str("https://host/f.png")}
Captions == {None, Str(""), Str("look")}
RequestTypes == MessageType \cup {"sticker"}

SendMessageRequest ==
  [to : {"", "15550001"}, message_type : RequestTypes, text : OptTexts,
   media_url : OptUrls, media_caption : Captions]

Filenames == {<<"photo", "png">>, <<"archive", "tar", "gz">>, <<"README">>}
UploadSteps == {"noname", "read", "done"}

\* the requests of the service as a whole: a few of each operation
SomeBodies ==
  { BadJson,
    Json(TextPayload(Str("m1"), Str(Sender), TsDigits(1700000000), Str("hi"))),
    Json(Payload(GoodStructure, Str("m1"), Str(Sender), TsDigits(1700000000),
                 Str("sticker"), "none", "obj", Absent, Absent, Absent, Absent)),
    Json(MediaPayload(Str("m2"), Str(Sender), TsDigits(1700000000), "image",
                      Str("media1"), Absent, Str("look"))),
    Json(WithRest(TextPayload(Str("m1"), Str(Sender), TsDigits(1700000000),
                              Str("hi")), <<"m2", "m3">>)),
    Json(WithRest(Payload(GoodStructure, Str("m1"), Str(Sender),
                          TsDigits(1700000000), Str("sticker"), "none", "obj",
                          Absent, Absent, Absent, Absent), <<"m2">>)) }

SomeAnswers ==
  { NoResponse("timed out"), ErrorResponse(400, "bad recipient"),
    JsonResponse(200, TRUE, <<Str("wamid.X")>>) }

SomeRequests ==
  [to : {"15550001"}, message_type : {"text", "image"}, text : {None, Str("hi")},
   media_url : {None, Str("https://host/f.png")}, media_caption : {None}]

\* ----------------------------------------------------------- specification
\* The state after start-up, the secret being one of `secrets`
InitWith(secrets) ==
  /\ received_messages = <<>>
  /\ verify_token \in secrets
  /\ handlers = [h \in Handlers |-> Idle]
  /\ uploads = 0
  /\ last = [op |-> "start", arg |-> Null, status |-> 0, ret |-> Null]

\* a deployment with its secret configured
Init == InitWith({"s3cret"})

Next ==
  \/ \E h \in Handlers, body \in WebhookBodies, now \in NowTimes :
       ReceiveWebhook(h, body, now)
  \/ \E h \in Handlers, answer \in SomeMetaAnswers : DownloadMeta(h, answer)
  \/ \E h \in Handlers, ok \in BOOLEAN : DownloadBytes(h, ok)
  \/ \E limit \in Limits, offset \in Offsets : GetMessages(limit, offset)
  \/ \E id \in MessageIds : GetMessage(id)

Spec == Init /\ [][Next]_vars

\* The normalizer alone: a pure function of the payload and the clock.
NormInput(wd, now) ==
  last = [op |-> "input", arg |-> [wd |-> wd, now |-> now], status |-> 0,
          ret |-> RetNone]

\* every shape of the path down to the first message
StructInputs(now) ==
  \E r \in {"obj", "arr"}, e \in ListKinds, e0 \in ElemKinds,
     c \in ListKinds, c0 \in ElemKinds, v \in {"absent", "null", "obj"},
     m \in ListKinds, m0 \in ElemKinds :
    NormInput(WithStructure(Structure(r, e, e0, c, c0, v, m, m0)), now)

\* first messages of type text (given, or by default)
TextInputs(now) ==
  \E id \in IdValues, from \in FromValues, ts \in TsValues,
     type \in {Absent, Str("text")}, ckey \in {"none", "text", "image"},
     cobj \in {"obj", "null", "arr"},
     body \in {Absent, Null, Arr, Str(""), Str("hi")} :
    NormInput(Payload(GoodStructure, id, from, ts, type, ckey, cobj, body,
                      Absent, Absent, Absent), now)

\* first messages of a media type
MediaInputs(now) ==
  \E id \in {Absent, Str("m1")}, from \in {Absent, Str(Sender)},
     ts \in {TsText, TsDigits(1700000000)}, t \in MediaTypes :
   \E ckey \in {"none", t, "text"}, cobj \in {"obj", "null", "arr"},
     mid \in {Absent, Null, Str(""), Str("media1")},
     link \in {Absent, Arr, Str("https://host/f")},
     caption \in {Absent, Null, Str(""), Str("look")} :
    NormInput(Payload(GoodStructure, id, from, ts, Str(t), ckey, cobj,
                      Str("hi"), mid, link, caption), now)

\* first messages whose type is none of the five
OtherInputs(now) ==
  \E id \in IdValues, from \in FromValues, ts \in TsValues,
     type \in {Null, Arr, Str(""), Str("Text"), Str("sticker")},
     ckey \in {"none", "text"} :
    NormInput(Payload(GoodStructure, id, from, ts, type, ckey, "obj",
                      Str("hi"), Str("media1"), Absent, Absent), now)

InitNorm ==
  /\ received_messages = <<>>
  /\ verify_token = "s3cret"
  /\ handlers = [h \in Handlers |-> Idle]
  /\ uploads = 0
  /\ \E now \in NowTimes :
       StructInputs(now) \/ TextInputs(now) \/ MediaInputs(now) \/ OtherInputs(now)

Normalize ==
  /\ last.op = "input"
  /\ last' = [op |-> "parse_webhook_message", arg |-> last.arg, status |-> 0,
              ret |-> parse_webhook_message(last.arg.wd, last.arg.now)]
  /\ UNCHANGED <<received_messages, verify_token, handlers, uploads>>

SpecNorm == InitNorm /\ [][Normalize]_vars

\* The verification handshake alone: a function of the request and the secret.
NextVerify ==
  \E mode \in Modes, challenge \in Challenges, token \in Tokens,
     excstr \in ExcStrings : VerifyWebhook(mode, challenge, token, excstr)

\* with the secret configured, or left unset
InitVerify == InitWith(Secrets)

SpecVerify == InitVerify /\ [][NextVerify]_vars

\* The outbound sends alone: functions of the request and of the provider's
\* answer. A request arrives, its route answers it.
SendInput(route, request, answer, now, named) ==
  last = [op |-> "request",
          arg |-> [route |-> route, request |-> request, answer |-> answer,
                   now |-> now, named |-> named],
          status |-> 0, ret |-> Null]

InitSend ==
  /\ received_messages = <<>>
  /\ verify_token = "s3cret"
  /\ handlers = [h \in Handlers |-> Idle]
  /\ uploads = 0
  /\ \E answer \in Answers, now \in NowTimes, named \in BOOLEAN :
       \/ \E request \in SendMessageRequest :
            SendInput("send", request, answer, now, named)
       \/ \E to \in Recipients, text \in Texts :
            SendInput("send-text",
                      [to |-> to, message_type |-> "text", text |-> Str(text),
                       media_url |-> None, media_caption |-> None],
                      answer, now, named)
       \/ \E to \in Recipients, media_type \in RequestTypes,
             media_url \in MediaUrls, caption \in Captions :
            SendInput("send-media",
                      [to |-> to, message_type |-> media_type, text |-> None,
                       media_url |-> Str(media_url), media_caption |-> caption],
                      answer, now, named)

NextSend ==
  \/ /\ last.op = "request" /\ last.arg.route = "send"
     /\ SendMessage(last.arg.request, last.arg.answer, last.arg.now,
                    last.arg.named)
  \/ /\ last.op = "request" /\ last.arg.route = "send-text"
     /\ SendTextMessage(last.arg.request.to, last.arg.request.text.v,
                        last.arg.answer, last.arg.now, last.arg.named)
  \/ /\ last.op = "request" /\ last.arg.route = "send-media"
     /\ SendMediaMessage(last.arg.request.to, last.arg.request.message_type,
                         last.arg.request.media_url.v,
                         last.arg.request.media_caption, last.arg.answer,
                         last.arg.now, last.arg.named)

SpecSend == InitSend /\ [][NextSend]_vars

\* Every operation of the service, interleaved.
NextAll ==
  \/ \E h \in Handlers, body \in SomeBodies : ReceiveWebhook(h, body, 1700000100)
  \/ \E h \in Handlers, answer \in MetaAnswers : DownloadMeta(h, answer)
  \/ \E h \in Handlers, ok \in BOOLEAN : DownloadBytes(h, ok)
  \/ \E token \in {"s3cret", "guess"} :
       VerifyWebhook("subscribe", "1158201444", token, "")
  \/ \E offset \in {0, 1} : GetMessages(1, offset)
  \/ \E id \in {"m1", "m9"} : GetMessage(id)
  \/ \E request \in SomeRequests, answer \in SomeAnswers :
       SendMessage(request, answer, 1700000100, TRUE)
  \/ \E answer \in SomeAnswers :
       SendTextMessage("15550001", "hi", answer, 1700000100, TRUE)
  \/ \E media_type \in {"audio", "sticker"}, answer \in SomeAnswers :
       SendMediaMessage("15550001", media_type, "https://host/g.ogg",
                        Str("look"), answer, 1700000100, TRUE)
  \/ \E filename \in Filenames, step \in UploadSteps : UploadMedia(filename, step)

SpecAll == Init /\ [][NextAll]_vars

\* ------------------------------------------------------------------ claims
Stored == {received_messages[i] : i \in 1 .. Len(received_messages)}

\* the most recent call was a webhook delivery whose body decoded to JSON
Delivered(l) == l.op = "receive_webhook" /\ l.arg.body.enc = "json"

\* the path entry[0].changes[0].value.messages[0] leads to a mapping
WellFormedPath(wd) ==
  /\ wd.root = "obj" /\ wd.entry = "list" /\ wd.entry0 = "obj"
  /\ wd.changes = "list" /\ wd.change0 = "obj" /\ wd.value = "obj"
  /\ wd.messages = "list" /\ wd.message0 = "obj"

\* C1: every stored received message has a non-empty message_id and a
\* non-empty from_number.
C1_StoredIdsNonEmpty ==
  \A m \in Stored : m.message_id # "" /\ m.from_number # ""

\* the first message's type is given and is none of the five known types
UnknownType(wd) ==
  /\ WellFormedPath(wd)
  /\ wd.type.k # "absent"
  /\ ~(wd.type.k = "str" /\ wd.type.v \in {"text", "audio", "document", "image", "video"})

\* C2: a delivery whose first message has a type outside the five known ones
\* is acknowledged, normalizes to no message and leaves the store as it was;
\* no stored message ever has a type outside the enumeration.
C2_UnknownTypeDropped ==
  [][ /\ \A i \in 1 .. Len(received_messages') :
           received_messages'[i].message_type
             \in {"text", "audio", "document", "image", "video"}
      /\ (Delivered(last') /\ UnknownType(last'.arg.body.data))
           => /\ last'.ret.kind = "none"
              /\ last'.status = 200
              /\ received_messages' = received_messages ]_vars

C2_Witness ==
  /\ Delivered(last)
  /\ last.arg.body.data.type = Str("sticker")
  /\ last.status = 200
  /\ Len(received_messages) > 0

\* the most recent step applied the normalizer to the payload last.arg.wd
Normalized(l) == l.op = "parse_webhook_message"

\* a text message as the provider sends it: type "text", id and from
\* strings, and a text object whose body is a string
ValidText(wd) ==
  /\ WellFormedPath(wd)
  /\ wd.type = Str("text")
  /\ IsStr(wd.id) /\ IsStr(wd.from)
  /\ wd.ckey = "text" /\ wd.cobj = "obj" /\ IsStr(wd.body)

\* C3: a valid text payload normalizes to one message: status delivered,
\* type text, text = text.body, id and from_number those of the payload, and
\* no media reference.
C3_TextNormalized ==
  (Normalized(last) /\ ValidText(last.arg.wd)) =>
     /\ last.ret.kind = "msg"
     /\ last.ret.msg.status = "delivered"
     /\ last.ret.msg.message_type = "text"
     /\ last.ret.msg.text = last.arg.wd.body
     /\ last.ret.msg.message_id = last.arg.wd.id.v
     /\ last.ret.msg.from_number = last.arg.wd.from.v
     /\ last.ret.msg.media_url = None
     /\ last.ret.msg.media_id = None

C3_Witness ==
  /\ Normalized(last) /\ ValidText(last.arg.wd)
  /\ last.arg.wd.body = Str("hi") /\ last.arg.wd.id = Str("m1")
  /\ last.ret.kind = "msg"

\* a key of the nested object holds a string or null, or is missing
StrNullOrAbsent(x) == x.k \in {"str", "null", "absent"}

\* a media message of type T: the object named T is a mapping whose id,
\* link and caption are strings, null or missing; id and from are strings
\* where given
ValidMedia(wd, T) ==
  /\ WellFormedPath(wd)
  /\ wd.type = Str(T)
  /\ wd.id.k \in {"str", "absent"} /\ wd.from.k \in {"str", "absent"}
  /\ wd.ckey = T /\ wd.cobj = "obj"
  /\ StrNullOrAbsent(wd.mid) /\ StrNullOrAbsent(wd.link)
  /\ StrNullOrAbsent(wd.caption)

\* the value of a key, the empty string standing for a missing key
OrEmpty(x) == IF x.k = "absent" THEN Str("") ELSE x

\* C4: for each media type T, a payload of type T normalizes to a message of
\* type T with media_id = T.id, media_url = T.link and text = T.caption, a
\* missing key giving the empty string.
C4_MediaNormalized ==
  \A T \in {"audio", "document", "image", "video"} :
    (Normalized(last) /\ ValidMedia(last.arg.wd, T)) =>
       /\ last.ret.kind = "msg"
       /\ last.ret.msg.message_type = T
       /\ last.ret.msg.media_id = OrEmpty(last.arg.wd.mid)
       /\ last.ret.msg.media_url = OrEmpty(last.arg.wd.link)
       /\ last.ret.msg.text = OrEmpty(last.arg.wd.caption)

C4_Witness ==
  /\ Normalized(last) /\ ValidMedia(last.arg.wd, "audio")
  /\ last.arg.wd.mid = Str("media1")
  /\ last.arg.wd.link = Str("https://host/f")
  /\ last.arg.wd.caption = Absent
  /\ last.ret.kind = "msg" /\ last.ret.msg.text = Str("")

\* entry, or changes of the first entry, or messages of the first change's
\* value is missing or empty
MissingPath(wd) ==
  /\ wd.root = "obj"
  /\ \/ wd.entry \in {"absent", "empty"}
     \/ /\ wd.entry = "list" /\ wd.entry0 = "obj"
        /\ \/ wd.changes \in {"absent", "empty"}
           \/ /\ wd.changes = "list" /\ wd.change0 = "obj" /\ wd.value = "obj"
              /\ wd.messages \in {"absent", "empty"}

\* C5: a delivery whose payload lacks entry, changes or messages normalizes
\* to no message, is acknowledged without an error, and leaves the store
\* unchanged.
C5_MissingPathIgnored ==
  [][ (Delivered(last') /\ MissingPath(last'.arg.body.data))
        => /\ last'.ret.kind = "none"
           /\ last'.status = 200
           /\ received_messages' = received_messages ]_vars

C5_Witness ==
  /\ Delivered(last) /\ MissingPath(last.arg.body.data)
  /\ last.arg.body.data.messages = "empty"
  /\ last.status = 200
  /\ Len(received_messages) > 0

\* C6: the normalizer returns a message or None for every input; it never
\* lets an exception escape.
C6_NeverRaises ==
  Normalized(last) => last.ret.kind \in {"msg", "none"}

\* an input on which the body of the try block raises
C6_Witness ==
  /\ Normalized(last)
  /\ last.arg.wd.root = "arr"
  /\ last.ret.kind = "none"

\* C7: the ingestion endpoint answers every request body with success, never
\* with an error status.
C7_WebhookAlwaysAcknowledged ==
  last.op \in {"receive_webhook", "download_media"} => last.status \in {0, 200}

\* the verification request matches: mode subscribe and the configured secret
Matches(l) == l.arg.mode = "subscribe" /\ l.arg.token = verify_token

\* C8: a verification request with another mode or another token is answered
\* with status 403.
C8_MismatchForbidden ==
  (last.op = "verify_webhook" /\ ~Matches(last)) => last.status = 403

\* C9: the challenge is returned, unchanged, exactly when the mode is
\* subscribe and the token equals the configured secret.
C9_ChallengeEchoed ==
  last.op = "verify_webhook" =>
    /\ Matches(last) <=> (last.status = 200 /\ last.ret.kind = "text")
    /\ Matches(last) => last.ret.body = last.arg.challenge
    /\ ~Matches(last) => (last.ret.kind # "text" /\ last.status # 200)

C9_Witness ==
  /\ last.op = "verify_webhook" /\ Matches(last)
  /\ last.arg.challenge = "1158201444"
  /\ last.ret.body = "1158201444"

\* C10: each normalized message is appended at the end of the store; the
\* listing with limit = size and offset = 0 returns the whole store in order
\* with total = size, and every listing with offset >= size is empty.
C10_ListAfterAppends ==
  [][ /\ (last'.op = "receive_webhook" /\ last'.ret.kind = "msg")
           => received_messages' = Append(received_messages, last'.ret.msg)
      /\ last'.op = "get_messages"
           => /\ last'.ret.total = Len(received_messages')
              /\ (last'.arg.limit = Len(received_messages') /\ last'.arg.offset = 0)
                   => last'.ret.messages = received_messages'
              /\ last'.arg.offset >= Len(received_messages')
                   => last'.ret.messages = <<>> ]_vars

C10_Witness ==
  /\ last.op = "get_messages"
  /\ Len(received_messages) = 2
  /\ received_messages[1] # received_messages[2]
  /\ last.arg.limit = 2 /\ last.arg.offset = 0
  /\ last.ret.messages = received_messages

\* the larger and the smaller of two integers
Larger(a, b) == IF a < b THEN b ELSE a
Smaller(a, b) == IF a < b THEN a ELSE b

\* the stored messages at the insertion positions p (from 0) with
\* lo <= p < hi, in insertion order
Window(store, lo, hi) ==
  IF Larger(lo, 0) >= Smaller(hi, Len(store)) THEN <<>>
  ELSE SubSeq(store, Larger(lo, 0) + 1, Smaller(hi, Len(store)))

\* C11: for every limit and offset, the listing returns exactly the stored
\* messages at the positions offset <= p < offset + limit, in insertion
\* order, and a total equal to the size of the whole store.
C11_ListIsWindow ==
  last.op = "get_messages" =>
    /\ last.ret.messages =
         Window(received_messages, last.arg.offset,
                last.arg.offset + last.arg.limit)
    /\ last.ret.total = Len(received_messages)

\* C12: get(id) returns the first stored message, in insertion order, whose
\* id is the requested one, and 404 when no stored message has that id.
C12_GetFirstMatch ==
  last.op = "get_message" =>
    IF \E i \in 1 .. Len(received_messages) :
         received_messages[i].message_id = last.arg.id
      THEN /\ last.status = 200
           /\ last.ret.msg.message_id = last.arg.id
           /\ \E i \in 1 .. Len(received_messages) :
                /\ last.ret.msg = received_messages[i]
                /\ \A j \in 1 .. (i - 1) :
                     received_messages[j].message_id # last.arg.id
      ELSE /\ last.status = 404
           /\ ~last.ret.found

\* two different stored messages share the requested id; the first is returned
C12_Witness ==
  /\ last.op = "get_message" /\ last.arg.id = "m1"
  /\ Len(received_messages) = 2
  /\ received_messages[1].message_id = "m1"
  /\ received_messages[2].message_id = "m1"
  /\ received_messages[1] # received_messages[2]
  /\ last.ret.msg = received_messages[1]

\* the first sequence is an initial part of the second
IsPrefix(s, t) == Len(s) <= Len(t) /\ SubSeq(t, 1, Len(s)) = s

\* C13: The store is append-only: over every step of every operation
\* (webhook ingestion, media download, sends, list, get, verification,
\* upload) the store before the step is a prefix of the store after it, so
\* no stored message is deleted, reordered or modified, its status included.
C13_AppendOnly == [][IsPrefix(received_messages, received_messages')]_vars

\* two messages are stored, the first still as it was delivered, and an
\* operation that is no delivery has run since
C13_Witness ==
  /\ Len(received_messages) = 2
  /\ received_messages[1].message_id = "m1"
  /\ received_messages[1].status = DELIVERED
  /\ received_messages[2].message_id = "m2"
  /\ last.op = "send_message"
  /\ uploads = 1

\* C14: Under every interleaving of webhook handlers each append is atomic:
\* a step in which a delivery normalizes to a message extends the store by
\* exactly that message, whatever the other handlers are suspended in, and
\* no other step of a handler changes the store; so the store holds one
\* entry per delivery that normalized to a message.
C14_AppendsAtomic ==
  [][IF last'.op = "receive_webhook" /\ last'.ret.kind = "msg"
       THEN received_messages' = Append(received_messages, last'.ret.msg)
       ELSE received_messages' = received_messages]_vars

\* every handler is suspended in its download, one entry per delivery
C14_Witness ==
  /\ \A h \in Handlers : handlers[h].pc # "idle"
  /\ Len(received_messages) = NumHandlers
  /\ last.op = "receive_webhook"
  /\ received_messages[Len(received_messages)] = last.ret.msg

\* the most recent call was a send that reached the provider
SendCalled ==
  /\ last.op \in {"send_message", "send_text_message", "send_media_message"}
  /\ last.ret.called

\* a 2xx answer whose "messages" array is non-empty, its first element
\* bearing an id
HasFirstId(answer) ==
  /\ answer.kind = "http" /\ IsSuccess(answer.code)
  /\ answer.json /\ answer.has_messages
  /\ answer.ids # <<>> /\ IsStr(answer.ids[1])

\* C15: For every send of a text that reaches the provider the outbound
\* payload is {messaging_product: "whatsapp", to, type: "text",
\* text: {body: text}} with `to` and `text` as they were passed; and when the
\* provider answers 2xx with a non-empty "messages" array, the result carries
\* the id of the array's first element and the status sent.
C15_SendTextResult ==
  (SendCalled /\ last.arg.request.message_type = "text") =>
    /\ last.ret.payload =
         [messaging_product |-> "whatsapp", to |-> last.arg.request.to,
          type |-> "text", key |-> "text", body |-> last.arg.request.text,
          link |-> Absent, caption |-> Absent]
    /\ HasFirstId(last.arg.answer) =>
         /\ last.ret.tried.kind = "ok"
         /\ last.ret.tried.message_id = last.arg.answer.ids[1].v
         /\ last.ret.tried.status = SENT
         /\ last.ret.out = last.ret.tried

\* a text sent, the provider answering with two ids: the first is returned
C15_Witness ==
  /\ last.op = "send_text_message"
  /\ last.arg.request.to = "15550001"
  /\ last.arg.request.text = Str("hi")
  /\ last.arg.answer.ids = <<Str("wamid.X"), Str("wamid.Y")>>
  /\ last.ret.out.message_id = "wamid.X"

\* C16: A send answered 4xx/5xx by the provider fails with a ProviderError
\* carrying the provider's raw error body, a send that got no answer fails
\* with a TransportError, so that the caller can tell the two apart.
C16_FailureKinds ==
  SendCalled =>
    /\ (last.arg.answer.kind = "http" /\ ~IsSuccess(last.arg.answer.code)) =>
         /\ last.ret.tried.kind = "raise"
         /\ last.ret.tried.exc = "ProviderError"
    /\ last.arg.answer.kind = "transport" =>
         /\ last.ret.tried.kind = "raise"
         /\ last.ret.tried.exc = "TransportError"

\* C17: For every send of a media message that reaches the provider, the
\* payload's <media_type> object has a caption exactly when the caption
\* passed is non-empty and the media type is document, image or video, and
\* then it is the caption passed; for audio there never is one.
C17_CaptionRule ==
  (SendCalled /\ last.arg.request.message_type \in MediaTypes) =>
    /\ last.ret.payload.key = last.arg.request.message_type
    /\ last.ret.payload.caption # Absent <=>
         /\ Truthy(last.arg.request.media_caption)
         /\ last.arg.request.message_type \in {"document", "image", "video"}
    /\ last.ret.payload.caption # Absent =>
         last.ret.payload.caption = last.arg.request.media_caption
    /\ last.arg.request.message_type = "audio" =>
         last.ret.payload.caption = Absent

\* an audio sent with a caption: the payload has none
C17_Witness ==
  /\ last.op = "send_media_message"
  /\ last.arg.request.message_type = "audio"
  /\ last.arg.request.media_caption = Str("look")
  /\ last.ret.called
  /\ last.ret.payload.link = Str("https://host/g.ogg")
  /\ last.ret.payload.caption = Absent

\* C18: download_media never raises: when its first or its second GET fails
\* it returns None, and the webhook handler that called it for an inbound
\* media message still answers with the acknowledgment (200).
C18_DownloadNeverRaises ==
  (last.op = "download_media" /\ last.ret.kind # "next") =>
    /\ last.ret.kind = "return"
    /\ (~last.arg.meta.ok \/ last.arg.bytes = "failed") =>
         /\ last.ret.value = None
         /\ last.status = 200

\* the second GET failed after the first gave a URL; the message is stored
C18_Witness ==
  /\ last.op = "download_media"
  /\ last.arg.meta = MetaUrl("https://cdn/a")
  /\ last.arg.bytes = "failed"
  /\ last.status = 200
  /\ \E i \in 1 .. Len(received_messages) :
       received_messages[i].media_id = Str(last.arg.media_id)

\* C19: Whenever the metadata lookup succeeds and yields a download URL,
\* download_media returns that URL, whatever becomes of the retrieval of the
\* media bytes.
C19_UrlFromMetadata ==
  (last.op = "download_media" /\ last.ret.kind = "return" /\ last.arg.meta.ok) =>
    last.ret.value = Str(last.arg.meta.url)

\* C20: Only the webhook ingestion path writes to the store: every step of a
\* send (send, send-text, send-media), succeeding or failing, of a list, a
\* get, a verification, an upload or a media download leaves it unchanged.
C20_OnlyIngestionWrites ==
  [][last'.op # "receive_webhook" => received_messages' = received_messages]_vars

\* a send has failed while a message is stored
C20_Witness ==
  /\ last.op = "send_text_message"
  /\ last.arg.answer.kind = "transport"
  /\ last.status = 500
  /\ Len(received_messages) = 1

\* the most recent call was a send request lacking what its type requires: a
\* text without text content, a media message without media_url, or a media
\* type that is none of audio, document, image, video
MalformedSend ==
  \/ /\ last.op = "send_message"
     /\ \/ last.arg.request.message_type = "text" /\ ~Truthy(last.arg.request.text)
        \/ /\ last.arg.request.message_type \in MediaTypes
           /\ ~Truthy(last.arg.request.media_url)
        \/ last.arg.request.message_type \notin MessageType
  \/ /\ last.op = "send_media_message"
     /\ last.arg.request.message_type \notin MediaTypes

\* C21: A send request with malformed or missing required input is answered
\* with a client error (4xx), never a server error, and no call of the
\* provider is made for it.
C21_MalformedIsClientError ==
  MalformedSend =>
    /\ 400 <= last.status /\ last.status <= 499
    /\ ~last.ret.called

\* C22: Message ids are unique in the store: whatever deliveries were made,
\* the same message delivered more than once included, no two stored
\* messages share an id.
C22_StoredIdsUnique ==
  \A i, j \in 1 .. Len(received_messages) :
    i # j => received_messages[i].message_id # received_messages[j].message_id

\* the first message's timestamp is no epoch-seconds value: missing, no
\* number, or out of range
Unparseable(ts) == ts.k # "digits"

\* C23: When the timestamp of the first message cannot be parsed as epoch
\* seconds (absent, non-numeric, out of range), an otherwise valid payload
\* still normalizes to its message, the timestamp being the current time.
C23_TimestampFallback ==
  (/\ Normalized(last)
   /\ Unparseable(last.arg.wd.timestamp)
   /\ \/ ValidText(last.arg.wd)
      \/ \E T \in MediaTypes : ValidMedia(last.arg.wd, T)) =>
     /\ last.ret.kind = "msg"
     /\ last.ret.msg.timestamp = last.arg.now

\* a text message with an out-of-range timestamp, normalized at 1700000101
C23_Witness ==
  /\ Normalized(last) /\ ValidText(last.arg.wd)
  /\ last.arg.wd.timestamp = TsHuge
  /\ last.arg.now = 1700000101
  /\ last.ret.kind = "msg"
  /\ last.ret.msg.timestamp = 1700000101

\* the most recent call was a send that gave a result
SendSucceeded ==
  /\ last.op \in {"send_message", "send_text_message", "send_media_message"}
  /\ last.ret.out.kind = "ok"

\* C24: Only the statuses sent and delivered are ever assigned: every stored
\* message has status delivered in every reachable state, every message the
\* normalizer produces has status delivered, every successful send result
\* has status sent; none carries pending, read or failed.
C24_OnlySentAndDelivered ==
  /\ \A m \in Stored : m.status = DELIVERED
  /\ (last.op = "receive_webhook" /\ last.ret.kind = "msg") =>
       last.ret.msg.status = DELIVERED
  /\ SendSucceeded => last.ret.out.status = SENT
  /\ SendSucceeded => last.status = 200

\* a message is stored and a send has succeeded
C24_Witness ==
  /\ Len(received_messages) = 2
  /\ received_messages[2].status = "delivered"
  /\ SendSucceeded
  /\ last.ret.out.message_id = "wamid.X"
  /\ last.ret.out.status = "sent"

\* C25: A single webhook call appends at most one message, the one derived
\* from entry[0].changes[0].value.messages[0]: the store grows by one entry at
\* most, and the entry has the id, sender and type of that first message,
\* whatever further entries, changes and messages the payload carries.
C25_AtMostFirstMessage ==
  [][last'.op = "receive_webhook" =>
       \/ received_messages' = received_messages
       \/ /\ Delivered(last')
          /\ Len(received_messages') = Len(received_messages) + 1
          /\ IsPrefix(received_messages, received_messages')
          /\ LET m == received_messages'[Len(received_messages')]
                 wd == last'.arg.body.data
             IN /\ Str(m.message_id) = OrEmpty(wd.id)
                /\ Str(m.from_number) = OrEmpty(wd.from)
                /\ Str(m.message_type) = TypeOf(wd)]_vars

\* a payload of three messages has been delivered: the first alone is stored
C25_Witness ==
  /\ Delivered(last)
  /\ last.arg.body.data.rest = <<"m2", "m3">>
  /\ last.status = 200
  /\ Len(received_messages) = 1
  /\ received_messages[1].message_id = "m1"

\* C26: Every provider call made through the send routes meets the provider
\* client's preconditions: a text is never posted with an empty `to` or an
\* empty text, a media message never with an empty `to`, an empty media_url
\* or a media type that is none of audio, document, image, video.
C26_SendPreconditions ==
  SendCalled =>
    /\ last.ret.payload.to # ""
    /\ last.ret.payload.type = "text" => Truthy(last.ret.payload.body)
    /\ last.ret.payload.type # "text" =>
         /\ last.ret.payload.type \in MediaTypes
         /\ Truthy(last.ret.payload.link)

\* the handlers that are inside download_media
Downloading(hs) == {h \in Handlers : hs[h].pc # "idle"}

\* C27: The webhook handler appends the normalized message before it attempts
\* a media download; it attempts one at most once per call, and only when the
\* message has a media type and a non-empty media_id. So a handler that is in
\* its download has its message in the store, whatever the download comes to,
\* and a text message never triggers a provider call.
C27_StoreBeforeDownload ==
  [][/\ last'.op = "receive_webhook" =>
          /\ Downloading(handlers') # Downloading(handlers) <=>
               /\ last'.ret.kind = "msg"
               /\ last'.ret.msg.message_type \in MediaTypes
               /\ Truthy(last'.ret.msg.media_id)
          /\ Downloading(handlers') # Downloading(handlers) =>
               received_messages' = Append(received_messages, last'.ret.msg)
     /\ \A h \in Handlers :
          /\ handlers'[h].pc = "meta" => handlers[h].pc \in {"idle", "meta"}
          /\ handlers'[h].pc = "bytes" => handlers[h].pc \in {"meta", "bytes"}
          /\ handlers'[h].pc # "idle" =>
               \E i \in 1 .. Len(received_messages') :
                 /\ received_messages'[i].message_type \in MediaTypes
                 /\ received_messages'[i].media_id = Str(handlers'[h].media_id)
                 /\ handlers'[h].media_id # ""]_vars

\* an image has just been delivered: it is stored, its download not yet made
C27_Witness ==
  /\ last.op = "receive_webhook"
  /\ last.status = 0
  /\ handlers[1].pc = "meta"
  /\ handlers[1].media_id = "media1"
  /\ received_messages[Len(received_messages)].message_type = "image"
  /\ received_messages[Len(received_messages)].media_id = Str("media1")

====
